---- MODULE Spec2Model ----
(***************************************************************************)
(* Type-erasure interface framework.                                       *)
(*                                                                         *)
(*  - src/unnamed/part_000: SideEffectsInterfaceTraits (Concept / Model),  *)
(*    BaseInterface (Trait slot and interface handle), TraitManager (the   *)
(*    per-instance tuple of Trait slots), AddOp / SubOp / LoadOp and       *)
(*    cast_to_interface.                                                   *)
(*  - src/concept-based-polymorphism/external.cpp: Drawable, the owning    *)
(*    handle over DrawableTraits::Model<T>, and the scene of main().       *)
(*                                                                         *)
(* The specifications share the variables:                                 *)
(*    Spec          every public operation of part_000, handles kept in    *)
(*                  variables;                                             *)
(*    SpecLifetime  constructing, copying, assigning and destroying        *)
(*                  instances, nothing else;                               *)
(*    SpecCast      the instance operations of part_000 and cast           *)
(*                  expressions; recent keeps the first cast since the     *)
(*                  last instance operation;                               *)
(*    SpecHistory   the same operations; castSeen keeps the first cast     *)
(*                  ever made;                                             *)
(*    SpecDraw      the Drawable handles and the scene of external.cpp.    *)
(***************************************************************************)
EXTENDS Integers, Sequences, FiniteSets, TLC

\* ---------------------------------------------------------------- bounds
MaxObjs == 2        \* storage locations for concrete-type instances
MaxModels == 2      \* heap addresses operator new can hand out
MaxHandles == 2     \* SideEffectsInterface handle variables
MaxScene == 3       \* Drawables appended to the scene
MaxLocals == 2      \* Drawable variables outside the scene

Objs == 1..MaxObjs
Addr == 1..MaxModels
Handles == 1..MaxHandles
Locals == 1..MaxLocals

\* The null pointer; every address of Addr and every object of Objs is > 0.
NULL == 0

\* ------------------------------------------------- part_000: static facts
\* The concrete types. PlainOp stands for a TraitManager<PlainOp> with an
\* empty trait list, the instantiation that takes cast_to_interface's else
\* branch.
OpTypes == {"AddOp", "SubOp", "LoadOp", "PlainOp"}

Interfaces == {"SideEffectsInterface"}

\* The Traits... pack each concrete type passes to TraitManager.
DeclaredTraits(T) ==
    IF T \in {"AddOp", "SubOp", "LoadOp"} THEN {"SideEffectsInterface"} ELSE {}

\* T::hasSideEffect()
HasSideEffect(T) == IF T = "LoadOp" THEN "true" ELSE "false"

VARIABLES
    inst,      \* inst[o]: the instance in storage o, with its tuple of Traits
    heap,      \* heap[p]: the Model operator new put at address p, if any
    handles,   \* handles[h]: a SideEffectsInterface (entity, vconcept)
    status,    \* "running", or "crashed" once undefined behaviour aborted
    ret,       \* what the step just taken returned or threw
    recent,    \* history: the first cast since the last instance operation
    castSeen,  \* history: the first cast ever made
    scene,     \* external.cpp: std::vector<Drawable> new_scene
    locals,    \* external.cpp: Drawable variables outside the scene
    log,       \* external.cpp: the underlying render()/draw() calls made
    pc,        \* external.cpp: main() is building, drawing or done
    it         \* external.cpp: position of the range-for loop in the scene

opvars == <<inst, heap, handles, status, ret, recent, castSeen>>
drawvars == <<scene, locals, log, pc, it>>
vars == <<inst, heap, handles, status, ret, recent, castSeen,
          scene, locals, log, pc, it>>

NoInst == [live |-> FALSE, type |-> "none", traits |-> [I \in {} |-> NULL]]
NoModel == [state |-> "free", ctype |-> "none"]
NoHandle == [live |-> FALSE, entity |-> NULL, vconcept |-> NULL]
NoRet == [kind |-> "none"]
NoCast == [kind |-> "none"]

\* ------------------------------------------------- part_000: heap
\* Addresses operator new may return: any that holds no live Model.
FreeAddrs(hp) == {p \in Addr : hp[p].state # "live"}

\* Trait::initialize<ConcreteType>(): vconcept = new Model<ConcreteType>().
\* The heap after the allocation at address p.
Initialize(hp, p, T) ==
    [hp EXCEPT ![p] = [state |-> "live", ctype |-> T]]

\* ~Trait(): delete vconcept. Deleting a live Model frees it; a delete of a
\* pointer to freed memory leaves the heap as it is (DeleteDefined says it
\* is undefined).
DeleteModel(hp, p) ==
    IF hp[p].state = "live" THEN [hp EXCEPT ![p] = NoModel] ELSE hp

\* delete of p is defined behaviour only if p is a live allocation.
DeleteDefined(hp, p) == hp[p].state = "live"

\* ------------------------------------------------- part_000: instances
\* TraitManager(): initTraits initializes every slot of the tuple, slot I at
\* the address a[I] operator new returned for it.
InitTraits(hp, a, T) ==
    [p \in Addr |->
        IF \E I \in DOMAIN a : a[I] = p THEN Initialize(hp, p, T)[p] ELSE hp[p]]

\* The allocations a run of initTraits over the slots Is can get: one
\* address per slot.
Allocations(hp, Is) ==
    {a \in [Is -> FreeAddrs(hp)] : \A I, J \in Is : I # J => a[I] # a[J]}

\* The pointers held by the slots of instance o.
SlotPointers(o) == {inst[o].traits[I] : I \in DOMAIN inst[o].traits}

\* AddOp x;  (TraitManager's default constructor)
Construct(o, T) ==
    /\ status = "running"
    /\ ~inst[o].live
    /\ \E a \in Allocations(heap, DeclaredTraits(T)) :
          /\ heap' = InitTraits(heap, a, T)
          /\ inst' = [inst EXCEPT ![o] = [live |-> TRUE, type |-> T, traits |-> a]]
    /\ recent' = NoCast
    /\ ret' = NoRet
    /\ UNCHANGED <<handles, status, castSeen, drawvars>>

\* x.initTraits(std::index_sequence<Is...>{}) called again on a live
\* instance: initTraits is a public member.
ReInitTraits(o, Is) ==
    /\ status = "running"
    /\ inst[o].live
    /\ Is # {}
    /\ Is \subseteq DeclaredTraits(inst[o].type)
    /\ \E a \in Allocations(heap, Is) :
          /\ heap' = InitTraits(heap, a, inst[o].type)
          /\ inst' = [inst EXCEPT ![o].traits =
                        [I \in DOMAIN @ |-> IF I \in Is THEN a[I] ELSE @[I]]]
    /\ recent' = NoCast
    /\ ret' = NoRet
    /\ UNCHANGED <<handles, status, castSeen, drawvars>>

\* The implicit copy of the tuple of Traits: memberwise, each Trait's
\* vconcept pointer is copied.
CopyTraits(src) == src

\* AddOp y = x;  (implicit copy constructor)
CopyConstruct(d, s) ==
    /\ status = "running"
    /\ ~inst[d].live
    /\ inst[s].live
    /\ inst' = [inst EXCEPT ![d] = [live |-> TRUE, type |-> inst[s].type,
                                    traits |-> CopyTraits(inst[s].traits)]]
    /\ recent' = NoCast
    /\ ret' = NoRet
    /\ UNCHANGED <<heap, handles, status, castSeen, drawvars>>

\* y = x;  (implicit copy assignment, same concrete type)
CopyAssign(d, s) ==
    /\ status = "running"
    /\ d # s
    /\ inst[d].live
    /\ inst[s].live
    /\ inst[d].type = inst[s].type
    /\ inst' = [inst EXCEPT ![d].traits = CopyTraits(inst[s].traits)]
    /\ recent' = NoCast
    /\ ret' = NoRet
    /\ UNCHANGED <<heap, handles, status, castSeen, drawvars>>

\* End of x's lifetime: ~Trait() runs delete vconcept for every slot. A
\* delete of a pointer that is no live allocation is undefined: the run
\* aborts, or goes on.
Destroy(o) ==
    /\ status = "running"
    /\ inst[o].live
    /\ heap' = [p \in Addr |->
                  IF p \in SlotPointers(o) THEN DeleteModel(heap, p)[p] ELSE heap[p]]
    /\ inst' = [inst EXCEPT ![o] = NoInst]
    /\ IF \A p \in SlotPointers(o) : DeleteDefined(heap, p)
       THEN /\ status' = "running"
            /\ ret' = NoRet
       ELSE /\ status' \in {"running", "crashed"}
            /\ ret' = [kind |-> "undefined", what |-> "delete of a deleted Model"]
    /\ recent' = NoCast
    /\ UNCHANGED <<handles, castSeen, drawvars>>

\* ------------------------------------------------- part_000: handles
\* The if-constexpr condition of cast_to_interface: Interface::Trait is one
\* of the Traits... of the instance's TraitManager.
Declares(T, I) == I \in DeclaredTraits(T)

\* A getTraitConcept that builds a new Model on every call (at the lowest
\* free address) instead of returning the one the slot holds.
GetTraitConceptRebuilding(o, I) ==
    IF FreeAddrs(heap) = {}
    THEN [inst |-> inst, heap |-> heap, result |-> inst[o].traits[I]]
    ELSE LET p == CHOOSE q \in FreeAddrs(heap) : \A r \in FreeAddrs(heap) : q <= r IN
         [inst |-> [inst EXCEPT ![o].traits[I] = p],
          heap |-> Initialize(heap, p, inst[o].type),
          result |-> p]

\* TraitManager::getTraitConcept<Trait>() -> Trait::getConcept(): both are
\* non-const members; they return the slot's pointer and write nothing.
GetTraitConcept(o, I) ==
    [inst |-> inst, heap |-> heap, result |-> inst[o].traits[I]]

\* A cast that hands out a handle with a null Concept for an undeclared
\* interface instead of throwing.
CastToInterfaceNoThrow(o, I) ==
    IF Declares(inst[o].type, I)
    THEN LET g == GetTraitConcept(o, I) IN
         [thrown |-> FALSE, inst |-> g.inst, heap |-> g.heap,
          value |-> [live |-> TRUE, entity |-> o, vconcept |-> g.result]]
    ELSE [thrown |-> FALSE, inst |-> inst, heap |-> heap,
          value |-> [live |-> TRUE, entity |-> o, vconcept |-> NULL]]

\* A cast that also checks, at run time, that the slot's Model is alive.
CastToInterfaceChecked(o, I) ==
    IF Declares(inst[o].type, I) /\ heap[inst[o].traits[I]].state = "live"
    THEN LET g == GetTraitConcept(o, I) IN
         [thrown |-> FALSE, inst |-> g.inst, heap |-> g.heap,
          value |-> [live |-> TRUE, entity |-> o, vconcept |-> g.result]]
    ELSE [thrown |-> TRUE, inst |-> inst, heap |-> heap, value |-> NoHandle]

\* cast_to_interface<I>(&o): the Interface(animal, vconcept) it returns, or
\* the std::runtime_error it throws, and the state it leaves.
CastToInterface(o, I) ==
    IF Declares(inst[o].type, I)
    THEN LET g == GetTraitConcept(o, I) IN
         [thrown |-> FALSE, inst |-> g.inst, heap |-> g.heap,
          value |-> [live |-> TRUE, entity |-> o, vconcept |-> g.result]]
    ELSE [thrown |-> TRUE, inst |-> inst, heap |-> heap, value |-> NoHandle]

\* cast_to_interface<I>(&o) on a live instance o; the result is assigned to
\* the handle variable h, or is a temporary when h = NULL. ret.first says no
\* cast was made before, ret.later that this is not the first cast since the
\* last instance operation.
Cast(o, I, h) ==
    /\ status = "running"
    /\ inst[o].live
    /\ LET r == CastToInterface(o, I) IN
          /\ ret' = [kind |-> "cast", obj |-> o, iface |-> I, thrown |-> r.thrown,
                     value |-> r.value, first |-> castSeen = NoCast,
                     later |-> recent # NoCast]
          /\ inst' = r.inst
          /\ heap' = r.heap
          /\ handles' = IF r.thrown \/ h = NULL THEN handles
                        ELSE [handles EXCEPT ![h] = r.value]
    /\ UNCHANGED <<status, drawvars>>

\* SideEffectsInterface h = cast_to_interface<I>(&o);
CastInto(o, I, h) ==
    /\ h \in Handles
    /\ Cast(o, I, h)
    /\ UNCHANGED <<recent, castSeen>>

\* cast_to_interface<I>(&o) as an expression; recent keeps the first cast
\* since the last instance operation.
CastExpr(o, I) ==
    /\ Cast(o, I, NULL)
    /\ recent' = IF recent = NoCast
                 THEN [kind |-> "cast", obj |-> o, iface |-> I,
                       thrown |-> ret'.thrown, value |-> ret'.value]
                 ELSE recent
    /\ UNCHANGED castSeen

\* cast_to_interface<I>(&o) as an expression; castSeen keeps the concrete
\* type, the interface and the outcome of the first cast ever made.
CastLogged(o, I) ==
    /\ Cast(o, I, NULL)
    /\ castSeen' = IF castSeen = NoCast
                   THEN [kind |-> "cast", type |-> inst[o].type, iface |-> I,
                         thrown |-> ret'.thrown]
                   ELSE castSeen
    /\ UNCHANGED recent

\* Pointers the public getters hand out: getTraitConcept of a live instance,
\* getImpl of a handle, and nullptr.
KnownConcepts ==
    {NULL} \cup UNION {SlotPointers(o) : o \in {x \in Objs : inst[x].live}}
           \cup {handles[k].vconcept : k \in {x \in Handles : handles[x].live}}

\* Entity pointers a caller can write: the address of a live instance, and
\* nullptr.
KnownEntities == {NULL} \cup {o \in Objs : inst[o].live}

\* SideEffectsInterface h(e, c): the inherited BaseInterface(void*, Concept*)
\* constructor is public.
DirectConstruct(h, e, c) ==
    /\ status = "running"
    /\ e \in KnownEntities
    /\ c \in KnownConcepts
    /\ handles' = [handles EXCEPT ![h] = [live |-> TRUE, entity |-> e, vconcept |-> c]]
    /\ ret' = NoRet
    /\ UNCHANGED <<inst, heap, status, recent, castSeen, drawvars>>

\* SideEffectsInterface h = k;  (implicit copy: both members are copied)
CopyHandle(h, k) ==
    /\ status = "running"
    /\ h # k
    /\ handles[k].live
    /\ handles' = [handles EXCEPT ![h] = handles[k]]
    /\ ret' = NoRet
    /\ UNCHANGED <<inst, heap, status, recent, castSeen, drawvars>>

\* What undefined behaviour in a call can come to.
UBOutcomes == {"crash", "true", "false"}

\* Model<ConcreteOp>::hasSideEffect(op): static_cast<ConcreteOp*>(op), then
\* ConcreteOp::hasSideEffect(). Defined only if op points to a live ConcreteOp.
ModelHasSideEffect(CT, e) ==
    IF e \in Objs /\ inst[e].live /\ inst[e].type = CT
    THEN {HasSideEffect(CT)}
    ELSE UBOutcomes

\* SideEffectsInterface::hasSideEffect() on the handle value hv:
\* getImpl()->hasSideEffect(getEntity()). A virtual call through a null or
\* dangling Concept pointer is undefined.
CallOutcomes(hv) ==
    IF hv.vconcept = NULL THEN {"crash"}
    ELSE IF heap[hv.vconcept].state # "live" THEN UBOutcomes
    ELSE ModelHasSideEffect(heap[hv.vconcept].ctype, hv.entity)

\* h.hasSideEffect()
HandleCall(h) ==
    /\ status = "running"
    /\ handles[h].live
    /\ \E v \in CallOutcomes(handles[h]) :
          /\ ret' = [kind |-> "call", h |-> h, value |-> v]
          /\ status' = IF v = "crash" THEN "crashed" ELSE "running"
    /\ UNCHANGED <<inst, heap, handles, recent, castSeen, drawvars>>

\* ------------------------------------------------- external.cpp: Drawable
DrawTypes == {"ExternalCircle", "ExternalSquare", "InternalTriangle"}

\* A Drawable: null says pImpl holds nothing; otherwise pImpl owns a
\* Model<type> that holds the wrapped item.
NullDrawable == [null |-> TRUE, type |-> "none", item |-> NULL]
NoLocal == [state |-> "absent", d |-> NullDrawable]

\* The generic Model<T>::draw() used for every type, the specializations
\* for the external types left out.
ModelDrawGeneric(T, item) ==
    <<[method |-> "draw", type |-> T, item |-> item]>>

\* DrawableTraits::Model<T>::draw(): the calls it makes on the item it
\* holds. Model<ExternalCircle> and Model<ExternalSquare> call render(), the
\* generic Model<T> calls draw().
ModelDraw(T, item) ==
    IF T = "ExternalCircle" THEN <<[method |-> "render", type |-> T, item |-> item]>>
    ELSE IF T = "ExternalSquare" THEN <<[method |-> "render", type |-> T, item |-> item]>>
    ELSE <<[method |-> "draw", type |-> T, item |-> item]>>

\* Drawable::Drawable(T item): pImpl = make_unique<Model<T>>(std::move(item)).
Wrap(T, item) == [null |-> FALSE, type |-> T, item |-> item]

\* Drawable::draw(): if (pImpl) pImpl->draw().
DrawableDraw(d) == IF ~d.null THEN ModelDraw(d.type, d.item) ELSE <<>>

\* Drawable's implicit move constructor moves the unique_ptr: the new
\* Drawable takes the Model, the old one is left with a null pImpl.
MoveDrawable(d) == [to |-> d, from |-> NullDrawable]

\* std::vector's growth: every element is move-constructed into the new
\* storage and the moved-from elements are destroyed.
Relocate(s) == [i \in 1..Len(s) |-> MoveDrawable(s[i]).to]

\* new_scene.emplace_back(T{}): the item is the Len(scene)+1-th appended.
EmplaceBack(T) ==
    /\ pc = "build"
    /\ Len(scene) < MaxScene
    /\ scene' = Append(Relocate(scene), Wrap(T, Len(scene) + 1))
    /\ UNCHANGED <<locals, log, pc, it, opvars>>

\* Drawable d(T{});  a Drawable variable outside the scene; its item is
\* numbered -k.
MakeLocal(k, T) ==
    /\ pc = "build"
    /\ locals[k].state = "absent"
    /\ locals' = [locals EXCEPT ![k] = [state |-> "live", d |-> Wrap(T, 0 - k)]]
    /\ UNCHANGED <<scene, log, pc, it, opvars>>

\* Drawable j(std::move(k));
MoveLocal(j, k) ==
    /\ pc = "build"
    /\ j # k
    /\ locals[j].state = "absent"
    /\ locals[k].state = "live"
    /\ locals' = [locals EXCEPT ![j] = [state |-> "live", d |-> MoveDrawable(locals[k].d).to],
                                 ![k] = [state |-> "live", d |-> MoveDrawable(locals[k].d).from]]
    /\ UNCHANGED <<scene, log, pc, it, opvars>>

\* for (const auto& item : new_scene): the loop starts at the front.
StartDraw ==
    /\ pc = "build"
    /\ pc' = "draw"
    /\ it' = 1
    /\ UNCHANGED <<scene, locals, log, opvars>>

\* item.draw(); and the step to the next element.
DrawNext ==
    /\ pc = "draw"
    /\ it <= Len(scene)
    /\ log' = log \o DrawableDraw(scene[it])
    /\ it' = it + 1
    /\ UNCHANGED <<scene, locals, pc, opvars>>

\* The loop ends behind the last element.
FinishDraw ==
    /\ pc = "draw"
    /\ it > Len(scene)
    /\ pc' = "done"
    /\ UNCHANGED <<scene, locals, log, it, opvars>>

\* ------------------------------------------------- specifications
Init ==
    /\ inst = [o \in Objs |-> NoInst]
    /\ heap = [p \in Addr |-> NoModel]
    /\ handles = [h \in Handles |-> NoHandle]
    /\ status = "running"
    /\ ret = NoRet
    /\ recent = NoCast
    /\ castSeen = NoCast
    /\ scene = <<>>
    /\ locals = [k \in Locals |-> NoLocal]
    /\ log = <<>>
    /\ pc = "build"
    /\ it = 1

\* Every public operation of part_000.
Next ==
    \/ \E o \in Objs, T \in OpTypes : Construct(o, T)
    \/ \E o \in Objs, Is \in SUBSET Interfaces : ReInitTraits(o, Is)
    \/ \E d, s \in Objs : CopyConstruct(d, s)
    \/ \E d, s \in Objs : CopyAssign(d, s)
    \/ \E o \in Objs : Destroy(o)
    \/ \E o \in Objs, I \in Interfaces, h \in Handles : CastInto(o, I, h)
    \/ \E h \in Handles, e \in Objs \cup {NULL}, c \in Addr \cup {NULL} :
          DirectConstruct(h, e, c)
    \/ \E h, k \in Handles : CopyHandle(h, k)
    \/ \E h \in Handles : HandleCall(h)

Spec == Init /\ [][Next]_vars

\* Constructing, copy-constructing, copy-assigning and destroying instances.
NextLifetime ==
    \/ \E o \in Objs, T \in OpTypes : Construct(o, T)
    \/ \E d, s \in Objs : CopyConstruct(d, s)
    \/ \E d, s \in Objs : CopyAssign(d, s)
    \/ \E o \in Objs : Destroy(o)

SpecLifetime == Init /\ [][NextLifetime]_vars

\* The instance operations of part_000 and cast expressions.
NextCast ==
    \/ \E o \in Objs, T \in OpTypes : Construct(o, T)
    \/ \E o \in Objs, Is \in SUBSET Interfaces : ReInitTraits(o, Is)
    \/ \E d, s \in Objs : CopyConstruct(d, s)
    \/ \E d, s \in Objs : CopyAssign(d, s)
    \/ \E o \in Objs : Destroy(o)
    \/ \E o \in Objs, I \in Interfaces : CastExpr(o, I)

SpecCast == Init /\ [][NextCast]_vars

\* The same operations, with the history of cast outcomes by concrete type.
NextHistory ==
    \/ \E o \in Objs, T \in OpTypes : Construct(o, T)
    \/ \E o \in Objs, Is \in SUBSET Interfaces : ReInitTraits(o, Is)
    \/ \E d, s \in Objs : CopyConstruct(d, s)
    \/ \E d, s \in Objs : CopyAssign(d, s)
    \/ \E o \in Objs : Destroy(o)
    \/ \E o \in Objs, I \in Interfaces : CastLogged(o, I)

SpecHistory == Init /\ [][NextHistory]_vars

\* The Drawable handles and the scene of external.cpp.
NextDraw ==
    \/ \E T \in DrawTypes : EmplaceBack(T)
    \/ \E k \in Locals, T \in DrawTypes : MakeLocal(k, T)
    \/ \E j, k \in Locals : MoveLocal(j, k)
    \/ StartDraw
    \/ DrawNext
    \/ FinishDraw

SpecDraw == Init /\ [][NextDraw]_vars

\* ------------------------------------------------- claims
\* The type of the instance a handle value is bound to, "none" if its
\* entity is null or dead.
EntityType(hv) ==
    IF hv.entity \in Objs /\ inst[hv.entity].live THEN inst[hv.entity].type ELSE "none"

\* The handle value hv is what cast_to_interface returns, in this state, for
\* a live instance of a type that declares the interface.
IsCastResult(hv) ==
    /\ hv.entity \in Objs
    /\ inst[hv.entity].live
    /\ \E I \in DeclaredTraits(inst[hv.entity].type) :
          CastToInterface(hv.entity, I).value = hv

\* C1: a cast of an instance of a type that declares the interface succeeds,
\* and hasSideEffect() through the handle the cast returns gives what
\* T::hasSideEffect() gives on that instance (false for AddOp and SubOp, true
\* for LoadOp).
C1_CastForwardsToConcreteType ==
    /\ (ret.kind = "cast" /\ Declares(inst[ret.obj].type, ret.iface)) => ~ret.thrown
    /\ (ret.kind = "call" /\ IsCastResult(handles[ret.h]))
          => ret.value = HasSideEffect(EntityType(handles[ret.h]))

\* C2: a cast of an instance whose type does not declare the interface
\* throws, returns no handle, and leaves the instances, their Trait slots,
\* the Models on the heap and the handles as they were.
C2_UndeclaredCastThrows ==
    [][(ret'.kind = "cast" /\ ~Declares(inst[ret'.obj].type, ret'.iface))
          => /\ ret'.thrown
             /\ ret'.value = NoHandle
             /\ inst' = inst
             /\ heap' = heap
             /\ handles' = handles]_vars

\* C2 witness: a cast has thrown while another instance held a live Model.
C2_Witness ==
    /\ ret.kind = "cast"
    /\ ret.thrown
    /\ inst[ret.obj].type = "PlainOp"
    /\ \E o \in Objs, p \in Addr :
          inst[o].live /\ p \in SlotPointers(o) /\ heap[p].state = "live"

\* C3: no two live instances hold the same Model pointer in their Trait
\* slots.
C3_NoSlotAliasing ==
    \A o1, o2 \in Objs :
        (o1 # o2 /\ inst[o1].live /\ inst[o2].live)
            => SlotPointers(o1) \cap SlotPointers(o2) = {}

\* C4: every live interface handle (SideEffectsInterface, Drawable) has a
\* non-null Concept / implementation pointer.
C4_NoNullHandle ==
    /\ \A h \in Handles : handles[h].live => handles[h].vconcept # NULL
    /\ \A k \in Locals : locals[k].state = "live" => ~locals[k].d.null
    /\ \A i \in 1..Len(scene) : ~scene[i].null

\* C5: a cast of x that follows an earlier cast of x to the same interface,
\* with nothing but casts in between, returns a handle with the same entity
\* and the same Concept pointer, so that a call through either handle has
\* the same outcomes; and no cast changes an instance, its Trait slots or a
\* Model.
C5_CastIsIdempotent ==
    /\ [](  (ret.kind = "cast" /\ ret.later
                /\ recent.obj = ret.obj /\ recent.iface = ret.iface)
            => /\ ret.thrown = recent.thrown
               /\ ret.value.entity = recent.value.entity
               /\ ret.value.vconcept = recent.value.vconcept
               /\ (~ret.thrown =>
                      CallOutcomes(ret.value) = CallOutcomes(recent.value)))
    /\ [][ret'.kind = "cast" => (inst' = inst /\ heap' = heap)]_vars

\* C5 witness: a second cast of the same instance has returned a handle.
C5_Witness ==
    /\ ret.kind = "cast"
    /\ ret.later
    /\ ~ret.thrown
    /\ recent.obj = ret.obj
    /\ ret.value.vconcept # NULL

\* What the scene's i-th Drawable must call: render() on an external type,
\* draw() on a conforming one, on the i-th appended item.
ExpectedCall(i) ==
    [method |-> IF scene[i].type \in {"ExternalCircle", "ExternalSquare"}
                THEN "render" ELSE "draw",
     type |-> scene[i].type,
     item |-> i]

\* C6: while and after the scene is drawn front to back, the underlying
\* calls made are exactly one per Drawable drawn so far, each on that
\* Drawable's own item, render() for the external types and draw() for the
\* conforming one, in insertion order; when the loop is done every Drawable
\* of the scene has been drawn.
C6_SceneDrawnInInsertionOrder ==
    /\ \A i \in 1..Len(scene) : ~scene[i].null /\ scene[i].item = i
    /\ pc = "build" => log = <<>>
    /\ pc \in {"draw", "done"} => log = [i \in 1..(it - 1) |-> ExpectedCall(i)]
    /\ pc = "done" => Len(log) = Len(scene)

\* C6 witness: a scene holding all three wrapped types has been drawn.
C6_Witness ==
    /\ pc = "done"
    /\ Len(scene) = 3
    /\ {scene[i].type : i \in 1..Len(scene)} = DrawTypes

\* C7: whether a cast succeeds depends on the concrete type and the
\* interface only: a cast has the outcome the first cast ever made had, if
\* that one was of an instance of the same type to the same interface.
C7_CastOutcomeByTypeOnly ==
    (ret.kind = "cast" /\ castSeen # NoCast
        /\ castSeen.type = inst[ret.obj].type /\ castSeen.iface = ret.iface)
    => ret.thrown = castSeen.thrown

\* C7 witness: a cast other than the first, of an instance of the first
\* one's type whose slot holds a pointer to a deleted Model.
C7_Witness ==
    /\ ret.kind = "cast"
    /\ ~ret.first
    /\ castSeen.type = inst[ret.obj].type
    /\ \E p \in SlotPointers(ret.obj) : heap[p].state # "live"

\* C8: in every handle, the Concept is the Model instantiated for the
\* concrete type of the object the entity pointer refers to.
C8_HandlePairMatched ==
    \A h \in Handles :
        (/\ handles[h].live
         /\ handles[h].vconcept # NULL
         /\ heap[handles[h].vconcept].state = "live"
         /\ EntityType(handles[h]) # "none")
        => heap[handles[h].vconcept].ctype = EntityType(handles[h])

\* C9: while an instance lives, no operation changes the Model pointer of
\* any of its Trait slots.
C9_SlotInitializedOnce ==
    [][\A o \in Objs :
          (inst[o].live /\ inst'[o].live) => inst'[o].traits = inst[o].traits]_vars

\* C10: no Model is deleted twice, and once every instance has been
\* destroyed no Model is left undeleted.
C10_ModelDeletedExactlyOnce ==
    /\ ret.kind # "undefined"
    /\ (\A o \in Objs : ~inst[o].live) => (\A p \in Addr : heap[p].state # "live")

====
